---------------------------- MODULE Spec2Model ----------------------------
(*
  Cosmic Dodge (src/html/game.js): the session controller, the frame loop,
  the simulation step and the spawner, as a state machine.

  Lengths are fixed-point integers: one unit is 1/200 px, the resolution at
  which the speed ramp "score * 0.005" px is exactly one unit per point of
  score.  Math.random() is a draw k/200 with k in 0..199.  Particle alpha is
  counted in steps of 0.05 (IEEE doubles: 1 - 20 * 0.05 accumulates to
  -3.2e-16, so the test "alpha <= 0" first succeeds after 20 decrements, as
  it does on the step count).

  requestAnimationFrame is modelled as the browser implements it: a list of
  queued callbacks (rafQueue); a display frame takes the whole list as its
  batch (rafBatch) and runs the callbacks one after the other, callbacks
  requested meanwhile wait for the next frame, and no other task runs inside
  a frame.  animationId is represented by the flag "named" on the one queued
  callback whose handle it holds (if that callback is still queued).
*)
EXTENDS Integers, Sequences, FiniteSets, TLC

VARIABLES
    gameActive, score, frameCount,      \* lines 23-25
    width, height,                      \* lines 28-29
    player,                             \* lines 32-38: [x, y, trail]
    asteroids,                          \* line 41
    mouseX, mouseY,                     \* lines 45-46
    scoreEl, finalScoreEl,              \* innerText of #game-score, #final-score
    modalHidden, startHidden, overHidden, \* class "hidden" on modal / start / game-over
    inner,                              \* window.innerWidth, window.innerHeight (px)
    rafQueue, rafBatch,                 \* queued frame callbacks / the running frame's
    openTimers, closeTimers,            \* pending setTimeout callbacks (10 ms / 500 ms)
    spawnRate,                          \* update's local of line 120, as last computed
    elements,                           \* lines 7-17: the elements getElementById found
    threw,                              \* the handler that ran last ended in a TypeError
    ev,                                 \* history: the kind of handler that ran last
    finalWrites,                        \* history: writes to #final-score this session
    steady,                             \* history: no pointer, window or close event since the start
    horizon                             \* exploration cap on the session's score

vars == <<gameActive, score, frameCount, width, height, player, asteroids,
          mouseX, mouseY, scoreEl, finalScoreEl, modalHidden, startHidden,
          overHidden, inner, rafQueue, rafBatch, openTimers, closeTimers,
          spawnRate, elements, threw, ev, finalWrites, steady, horizon>>

-----------------------------------------------------------------------------
(* Bounds of the exploration *)

MaxTicks == 2
MaxQueued == 2
MaxTimers == 1

-----------------------------------------------------------------------------
(* Units and inputs *)

Unit == 1000 \div 5
Px(n) == n * Unit

\* Math.random(): k stands for k / Unit in [0, 1)
SizeDraws == {0, Unit - 1}
XDraws == {0, Unit \div 2}
SpeedDraws == {0, Unit - 1}
Rnd(k, range) == (k * range) \div Unit

\* window.innerWidth x innerHeight, in px
Viewports == {<<1000, 800>>, <<400, 150>>, <<20, 100>>}

\* pointer / touch positions relative to the canvas, in units
Targets == {<<Px(0 - 200), Px(0 - 200)>>, <<Px(1000), Px(800)>>}

Min(a, b) == IF a < b THEN a ELSE b
Abs(a) == IF a < 0 THEN 0 - a ELSE a

-----------------------------------------------------------------------------
(* The program's state as one record, so that handlers are functions *)

\* a handler starts with no exception raised
Cur ==
    [gameActive |-> gameActive, score |-> score, frameCount |-> frameCount,
     width |-> width, height |-> height, player |-> player,
     asteroids |-> asteroids, mouseX |-> mouseX, mouseY |-> mouseY,
     scoreEl |-> scoreEl, finalScoreEl |-> finalScoreEl,
     modalHidden |-> modalHidden, startHidden |-> startHidden,
     overHidden |-> overHidden, inner |-> inner,
     rafQueue |-> rafQueue, rafBatch |-> rafBatch,
     openTimers |-> openTimers, closeTimers |-> closeTimers,
     spawnRate |-> spawnRate, elements |-> elements, threw |-> FALSE,
     finalWrites |-> finalWrites, steady |-> steady, horizon |-> horizon]

Is(s) ==
    /\ gameActive = s.gameActive
    /\ score = s.score
    /\ frameCount = s.frameCount
    /\ width = s.width
    /\ height = s.height
    /\ player = s.player
    /\ asteroids = s.asteroids
    /\ mouseX = s.mouseX
    /\ mouseY = s.mouseY
    /\ scoreEl = s.scoreEl
    /\ finalScoreEl = s.finalScoreEl
    /\ modalHidden = s.modalHidden
    /\ startHidden = s.startHidden
    /\ overHidden = s.overHidden
    /\ inner = s.inner
    /\ rafQueue = s.rafQueue
    /\ rafBatch = s.rafBatch
    /\ openTimers = s.openTimers
    /\ closeTimers = s.closeTimers
    /\ spawnRate = s.spawnRate
    /\ elements = s.elements
    /\ threw = s.threw
    /\ finalWrites = s.finalWrites
    /\ steady = s.steady
    /\ horizon = s.horizon

Set(s) ==
    /\ gameActive' = s.gameActive
    /\ score' = s.score
    /\ frameCount' = s.frameCount
    /\ width' = s.width
    /\ height' = s.height
    /\ player' = s.player
    /\ asteroids' = s.asteroids
    /\ mouseX' = s.mouseX
    /\ mouseY' = s.mouseY
    /\ scoreEl' = s.scoreEl
    /\ finalScoreEl' = s.finalScoreEl
    /\ modalHidden' = s.modalHidden
    /\ startHidden' = s.startHidden
    /\ overHidden' = s.overHidden
    /\ inner' = s.inner
    /\ rafQueue' = s.rafQueue
    /\ rafBatch' = s.rafBatch
    /\ openTimers' = s.openTimers
    /\ closeTimers' = s.closeTimers
    /\ spawnRate' = s.spawnRate
    /\ elements' = s.elements
    /\ threw' = s.threw
    /\ finalWrites' = s.finalWrites
    /\ steady' = s.steady
    /\ horizon' = s.horizon

-----------------------------------------------------------------------------
(* Element lookup and listener registration *)

AllElements == {"modal", "startBtn", "closeBtn", "canvas", "scoreEl", "finalScoreEl",
                "startScreen", "gameOverScreen", "playBtn", "restartBtn"}

\* a property access on null: the handler stops where it is
Throw(s) == [s EXCEPT !.threw = TRUE]
Absent(s, e) == e \notin s.elements

\* the listeners the IIFE has registered when it returns or throws: line 19
\* returns before any registration, line 286 / 287 throws on a null button
Registered(els) ==
    IF "canvas" \notin els \/ "modal" \notin els THEN {}
    ELSE LET a == (IF "startBtn" \in els THEN {"open"} ELSE {})
                  \cup (IF "closeBtn" \in els THEN {"close"} ELSE {})
                  \cup {"mousemove", "touchmove"}
         IN  IF "playBtn" \notin els THEN a
             ELSE IF "restartBtn" \notin els THEN a \cup {"play"}
             ELSE a \cup {"play", "restart", "resize"}

Listeners == Registered(elements)

-----------------------------------------------------------------------------
(* The frame scheduler (browser side of requestAnimationFrame) *)

Unnamed(q) == [i \in 1..Len(q) |-> [q[i] EXCEPT !.named = FALSE]]
NotNamed(c) == ~c.named

\* requestAnimationFrame(gameLoop); animationId = the new handle
requestAnimationFrame(s) ==
    [s EXCEPT !.rafQueue = Append(Unnamed(s.rafQueue), [named |-> TRUE, stale |-> FALSE]),
              !.rafBatch = Unnamed(s.rafBatch)]

\* cancelAnimationFrame(animationId): drops the callback the handle names, if
\* it is still queued (a handle that already ran, or undefined, cancels nothing)
cancelAnimationFrame(s) ==
    [s EXCEPT !.rafQueue = SelectSeq(s.rafQueue, NotNamed),
              !.rafBatch = SelectSeq(s.rafBatch, NotNamed)]

-----------------------------------------------------------------------------
(* Helper functions *)

PlayerSize == Px(20)

\* resizeGame repositioning the player whether or not a game is active
resizeGameAlways(s) ==
    LET maxWidth == (s.inner[1] * 95 * Unit) \div 100
        maxHeight == (s.inner[2] * 80 * Unit) \div 100
        w == Min(Px(800), maxWidth)
        h == Min(Px(600), maxHeight)
    IN  [s EXCEPT !.width = w, !.height = h,
                  !.player.x = w \div 2, !.player.y = h - Px(100)]

resizeGame(s) ==
    LET maxWidth == (s.inner[1] * 95 * Unit) \div 100
        maxHeight == (s.inner[2] * 80 * Unit) \div 100
        w == Min(Px(800), maxWidth)
        h == Min(Px(600), maxHeight)
        r == [s EXCEPT !.width = w, !.height = h]
    IN  IF ~s.gameActive
        THEN [r EXCEPT !.player.x = w \div 2, !.player.y = h - Px(100)]
        ELSE r

\* spawnAsteroid drawing x over the whole width ("- size" lost at line 72)
spawnAsteroidFullWidth(s, rnd) ==
    LET size == Rnd(rnd.size, Px(25)) + Px(10)
        x == Rnd(rnd.x, s.width)
        speed == Rnd(rnd.speed, Px(3)) + Px(2) + (s.score * 5 * Unit) \div 1000
    IN  [s EXCEPT !.asteroids = Append(@, [x |-> x, y |-> 0 - size, size |-> size,
                                            speed |-> speed, rotSteps |-> 0])]

\* rnd = [size, x, speed]: the three Math.random() draws that matter; colour,
\* initial rotation and rotation speed are cosmetic, rotSteps counts the
\* rotSpeed increments applied to the rotation
spawnAsteroid(s, rnd) ==
    LET size == Rnd(rnd.size, Px(25)) + Px(10)
        x == Rnd(rnd.x, s.width - size)
        speed == Rnd(rnd.speed, Px(3)) + Px(2) + (s.score * 5 * Unit) \div 1000
    IN  [s EXCEPT !.asteroids = Append(@, [x |-> x, y |-> 0 - size, size |-> size,
                                            speed |-> speed, rotSteps |-> 0])]

endGame(s) ==
    LET c == cancelAnimationFrame([s EXCEPT !.gameActive = FALSE])
        f == [c EXCEPT !.finalScoreEl = s.score \div 10, !.finalWrites = @ + 1]
    IN  IF Absent(s, "finalScoreEl") THEN Throw(c)
        ELSE IF Absent(s, "gameOverScreen") THEN Throw(f)
        ELSE [f EXCEPT !.overHidden = FALSE]

-----------------------------------------------------------------------------
(* update *)

\* x += d * 0.15, truncated to the unit
Lerp(d) == IF d < 0 THEN 0 - ((0 - d) * 15) \div 100 ELSE (d * 15) \div 100

\* Clamp without its second test (lines 102, 104 lost)
ClampLowOnly(v, lo, hi) == IF v < lo THEN lo ELSE v

\* lines 101-104: the two tests of one axis, in the code's order
Clamp(v, lo, hi) ==
    LET a == IF v < lo THEN lo ELSE v
    IN  IF a > hi THEN hi ELSE a

\* MovePlayer adding 15 % of the target instead of 15 % of the offset to it
MovePlayerAbsolute(s) ==
    LET x == s.player.x + Lerp(s.mouseX)
        y == s.player.y + Lerp(s.mouseY)
    IN  [s EXCEPT !.player.x = Clamp(x, PlayerSize, s.width - PlayerSize),
                  !.player.y = Clamp(y, PlayerSize, s.height - PlayerSize)]

MovePlayer(s) ==
    LET x == s.player.x + Lerp(s.mouseX - s.player.x)
        y == s.player.y + Lerp(s.mouseY - s.player.y)
    IN  [s EXCEPT !.player.x = Clamp(x, PlayerSize, s.width - PlayerSize),
                  !.player.y = Clamp(y, PlayerSize, s.height - PlayerSize)]

AlphaOne == 20
\* ticks is history: the number of updates the particle has gone through
Aged(p) == [p EXCEPT !.y = @ + Px(2), !.alpha = @ - 1, !.ticks = @ + 1]

\* Visible with "alpha < 0" for "alpha <= 0"
VisibleAtZero(p) == ~(p.alpha < 0)

Visible(p) == ~(p.alpha <= 0)

\* UpdateTrail putting the new particle first (unshift for push)
UpdateTrailUnshift(s) ==
    LET pushed == IF s.frameCount % 3 = 0
                  THEN <<[x |-> s.player.x, y |-> s.player.y + Px(15),
                          alpha |-> AlphaOne, ticks |-> 0]>> \o s.player.trail
                  ELSE s.player.trail
        aged == [i \in 1..Len(pushed) |-> Aged(pushed[i])]
    IN  [s EXCEPT !.player.trail = SelectSeq(aged, Visible)]

UpdateTrail(s) ==
    LET pushed == IF s.frameCount % 3 = 0
                  THEN Append(s.player.trail,
                              [x |-> s.player.x, y |-> s.player.y + Px(15),
                               alpha |-> AlphaOne, ticks |-> 0])
                  ELSE s.player.trail
        aged == [i \in 1..Len(pushed) |-> Aged(pushed[i])]
    IN  [s EXCEPT !.player.trail = SelectSeq(aged, Visible)]

\* SpawnRate with inclusive thresholds (>= for >)
SpawnRateInclusive(sc) ==
    IF sc >= 2000 THEN 15
    ELSE IF sc >= 1000 THEN 25
    ELSE IF sc >= 500 THEN 35
    ELSE 45

SpawnRate(sc) ==
    IF sc > 2000 THEN 15
    ELSE IF sc > 1000 THEN 25
    ELSE IF sc > 500 THEN 35
    ELSE 45

SpawnStep(s, rnd) ==
    LET rate == SpawnRate(s.score)
        r == [s EXCEPT !.spawnRate = rate]
    IN  IF s.frameCount % rate = 0 THEN spawnAsteroid(r, rnd) ELSE r

\* Collides without the 5 px margin
CollidesNoMargin(p, a) ==
    LET reach == PlayerSize + a.size
        dx == Abs(p.x - a.x)
        dy == Abs(p.y - a.y)
    IN  /\ dx < reach
        /\ dy < reach
        /\ dx * dx + dy * dy < reach * reach

\* dist < player.size + ast.size - 5, dist = Math.hypot(dx, dy); the squares
\* are compared, and only when both legs are shorter than the reach
Collides(p, a) ==
    LET reach == PlayerSize + a.size - Px(5)
        dx == Abs(p.x - a.x)
        dy == Abs(p.y - a.y)
    IN  /\ dx < reach
        /\ dy < reach
        /\ dx * dx + dy * dy < reach * reach

\* Advance with "ast.y = ast.speed" for "ast.y += ast.speed"
AdvanceAssign(a) == [a EXCEPT !.y = a.speed, !.rotSteps = @ + 1]

Advance(a) == [a EXCEPT !.y = @ + a.speed, !.rotSteps = @ + 1]
OffScreen(a, h) == a.y > h + a.size
RemoveAt(q, i) == [j \in 1..(Len(q) - 1) |-> IF j < i THEN q[j] ELSE q[j + 1]]

\* AsteroidLoop advancing and removing every asteroid before any test
AsteroidLoopAdvanceAll(asts, i, p, h) ==
    LET adv == [j \in 1..Len(asts) |-> Advance(asts[j])]
        kept == SelectSeq(adv, LAMBDA a : ~OffScreen(a, h))
    IN  [asteroids |-> kept, hit |-> \E j \in DOMAIN kept : Collides(p, kept[j])]

\* lines 130-149: from the last asteroid down to the first
RECURSIVE AsteroidLoop(_, _, _, _)
AsteroidLoop(asts, i, p, h) ==
    IF i < 1 THEN [asteroids |-> asts, hit |-> FALSE]
    ELSE LET ast == Advance(asts[i])
             moved == [asts EXCEPT ![i] = ast]
         IN  IF OffScreen(ast, h) THEN AsteroidLoop(RemoveAt(moved, i), i - 1, p, h)
             ELSE IF Collides(p, ast) THEN [asteroids |-> moved, hit |-> TRUE]
             ELSE AsteroidLoop(moved, i - 1, p, h)

\* IncScore displaying Math.round(score / 10)
IncScoreRounded(s) == [s EXCEPT !.score = @ + 1, !.scoreEl = (s.score + 1 + 5) \div 10]

\* IncScore counting in displayed points
IncScoreDisplayed(s) == [s EXCEPT !.score = @ + 10, !.scoreEl = (s.score + 10) \div 10]

\* lines 91-92
IncScore(s) == [s EXCEPT !.score = @ + 1, !.scoreEl = (s.score + 1) \div 10]

\* update counting the frame before the asteroid loop (line 151 moved up)
updateCountFirst(s, rnd) ==
    IF ~s.gameActive THEN s
    ELSE IF Absent(s, "scoreEl") THEN Throw([s EXCEPT !.score = @ + 1])
    ELSE LET s1 == IncScore(s)
             s2 == UpdateTrail(MovePlayer(s1))
             s3 == SpawnStep(s2, rnd)
             lp == AsteroidLoop(s3.asteroids, Len(s3.asteroids), s3.player, s3.height)
             s4 == [s3 EXCEPT !.asteroids = lp.asteroids, !.frameCount = @ + 1]
         IN  IF lp.hit THEN endGame(s4) ELSE s4

update(s, rnd) ==
    IF ~s.gameActive THEN s
    ELSE IF Absent(s, "scoreEl") THEN Throw([s EXCEPT !.score = @ + 1])
    ELSE LET s1 == IncScore(s)
             s2 == UpdateTrail(MovePlayer(s1))
             s3 == SpawnStep(s2, rnd)
             lp == AsteroidLoop(s3.asteroids, Len(s3.asteroids), s3.player, s3.height)
             s4 == [s3 EXCEPT !.asteroids = lp.asteroids]
         IN  IF lp.hit THEN endGame(s4)
             ELSE [s4 EXCEPT !.frameCount = @ + 1]

\* gameLoop that does not reschedule itself (line 212 lost)
gameLoopOnce(s, rnd) ==
    IF ~s.gameActive THEN s
    ELSE update(s, rnd)

\* draw() reads the state and writes only the canvas
gameLoop(s, rnd) ==
    IF ~s.gameActive THEN s
    ELSE LET u == update(s, rnd)
         IN  IF u.threw THEN u ELSE requestAnimationFrame(u)

\* ResetVariables forgetting the trail (line 220 lost)
ResetVariablesKeepTrail(s) ==
    [s EXCEPT !.score = 0, !.frameCount = 0, !.asteroids = <<>>]

\* lines 217-220
ResetVariables(s) ==
    [s EXCEPT !.score = 0, !.frameCount = 0, !.asteroids = <<>>, !.player.trail = <<>>]

startGame(s, rnd) ==
    LET r == resizeGame(ResetVariables(s))
        p == [r EXCEPT !.player.x = r.width \div 2,
                       !.player.y = r.height - Px(100),
                       !.mouseX = r.width \div 2,
                       !.mouseY = r.height - Px(100),
                       !.finalWrites = 0,
                       !.steady = TRUE,
                       !.horizon = MaxTicks]
        p1 == [p EXCEPT !.startHidden = TRUE]
        p2 == [p1 EXCEPT !.overHidden = TRUE]
        p3 == [p2 EXCEPT !.scoreEl = 0, !.gameActive = TRUE]
    IN  IF Absent(s, "startScreen") THEN Throw(p)
        ELSE IF Absent(s, "gameOverScreen") THEN Throw(p1)
        ELSE IF Absent(s, "scoreEl") THEN Throw(p2)
        ELSE gameLoop(p3, rnd)

\* the 500 ms timeout of the close handler (lines 262-267)
closeTimeout(s) ==
    LET m == [s EXCEPT !.closeTimers = @ - 1, !.modalHidden = TRUE]
        m1 == [m EXCEPT !.startHidden = FALSE]
    IN  IF Absent(s, "startScreen") THEN Throw(m)
        ELSE IF Absent(s, "gameOverScreen") THEN Throw(m1)
        ELSE [m1 EXCEPT !.overHidden = TRUE]

\* history: the callbacks still queued when a handler has stopped the schedule
MarkStale(q) == [i \in 1..Len(q) |-> [q[i] EXCEPT !.stale = TRUE]]
Stopped(s, t) ==
    IF s.gameActive /\ ~t.gameActive
    THEN [t EXCEPT !.rafQueue = MarkStale(@), !.rafBatch = MarkStale(@)]
    ELSE t

-----------------------------------------------------------------------------
(* Initial state: the IIFE has run (lines 22-46), no listener has fired *)

RndDraws == [size : SizeDraws, x : XDraws, speed : SpeedDraws]
NoDraw == [size |-> 0, x |-> 0, speed |-> 0]

\* the draws a call of gameLoop consumes: none unless its tick spawns
DrawsFor(s) ==
    IF s.gameActive /\ s.frameCount % SpawnRate(s.score + 1) = 0
    THEN RndDraws
    ELSE {NoDraw}

Init ==
    /\ gameActive = FALSE
    /\ score = 0
    /\ frameCount = 0
    /\ width = Px(800)
    /\ height = Px(600)
    /\ player = [x |-> Px(800) \div 2, y |-> Px(600) - Px(100), trail |-> <<>>]
    /\ asteroids = <<>>
    /\ mouseX = Px(800) \div 2
    /\ mouseY = Px(600) - Px(100)
    /\ scoreEl = 0
    /\ finalScoreEl = 0
    /\ modalHidden = TRUE
    /\ startHidden = FALSE
    /\ overHidden = TRUE
    /\ inner \in Viewports
    /\ rafQueue = <<>>
    /\ rafBatch = <<>>
    /\ openTimers = 0
    /\ closeTimers = 0
    /\ spawnRate = 45
    /\ elements = AllElements
    /\ threw = FALSE
    /\ ev = "event"
    /\ finalWrites = 0
    /\ steady = FALSE
    /\ horizon = MaxTicks

-----------------------------------------------------------------------------
(* Handlers *)

Pending == rafQueue \o rafBatch

\* tasks run between display frames, never in the middle of a frame's callbacks
BetweenFrames == rafBatch = <<>>

\* startBtn click (lines 248-254)
OpenModal ==
    /\ "open" \in Listeners
    /\ BetweenFrames
    /\ openTimers < MaxTimers
    /\ Set([Cur EXCEPT !.modalHidden = FALSE, !.openTimers = @ + 1])
    /\ ev' = "event"

\* the 10 ms timeout of lines 250-253
OpenTimeout ==
    /\ BetweenFrames
    /\ openTimers > 0
    /\ Set(resizeGame([Cur EXCEPT !.openTimers = @ - 1]))
    /\ ev' = "event"

\* closeBtn click (lines 259-268)
CloseModal ==
    /\ "close" \in Listeners
    /\ BetweenFrames
    /\ closeTimers < MaxTimers
    /\ Set(Stopped(Cur, [Cur EXCEPT !.gameActive = FALSE, !.closeTimers = @ + 1,
                                     !.steady = FALSE]))
    /\ ev' = "event"

\* the 500 ms timeout of lines 262-267
CloseTimeout ==
    /\ BetweenFrames
    /\ closeTimers > 0
    /\ Set(closeTimeout(Cur))
    /\ ev' = "event"

\* mousemove / touchmove (lines 272-284)
MouseMove ==
    /\ "mousemove" \in Listeners
    /\ BetweenFrames
    /\ \E t \in Targets :
          /\ <<mouseX, mouseY>> # t
          /\ Set([Cur EXCEPT !.mouseX = t[1], !.mouseY = t[2], !.steady = FALSE])
    /\ ev' = "event"

\* window resize (line 289): the window changes, the listener runs if registered
WindowResize ==
    /\ BetweenFrames
    /\ \E v \in Viewports :
          /\ v # inner
          /\ Set(IF "resize" \in Listeners
                 THEN resizeGame([Cur EXCEPT !.inner = v, !.steady = FALSE])
                 ELSE [Cur EXCEPT !.inner = v, !.steady = FALSE])
    /\ ev' = "event"

\* playBtn / restartBtn click (lines 286-287)
StartGame ==
    /\ Listeners \cap {"play", "restart"} # {}
    /\ BetweenFrames
    /\ Len(rafQueue) < MaxQueued
    /\ \E rnd \in RndDraws : Set(Stopped(Cur, startGame(Cur, rnd)))
    /\ ev' = "start"

\* the callback a display frame runs next is taken off its list: a frame
\* that begins takes every queued callback as its batch
Dequeued(s) ==
    LET batch == IF s.rafBatch = <<>> THEN s.rafQueue ELSE s.rafBatch
        queue == IF s.rafBatch = <<>> THEN <<>> ELSE s.rafQueue
    IN  [s EXCEPT !.rafBatch = Tail(batch), !.rafQueue = queue]

\* the browser runs the next callback of a display frame
FrameCallback ==
    /\ Pending # <<>>
    /\ gameActive => score < horizon
    /\ \E rnd \in DrawsFor(Cur) : Set(Stopped(Cur, gameLoop(Dequeued(Cur), rnd)))
        /\ ev' = (IF gameActive THEN "tick" ELSE "stray")

\* history labels: a frame callback ran update ("tick") or found the session
\* stopped ("stray"); startGame ran ("start"); any other handler ("event")
Tick == ev = "tick"
Start == ev = "start"
TickOrStart == Tick \/ Start      \* the handlers that execute update while Running

Next ==
    \/ OpenModal
    \/ OpenTimeout
    \/ CloseModal
    \/ CloseTimeout
    \/ MouseMove
    \/ WindowResize
    \/ StartGame
    \/ FrameCallback

Spec == Init /\ [][Next]_vars

\* the browser keeps delivering display frames: a callback that stays queued
\* is run.  This is weak fairness of FrameCallback, written out with the
\* action's guard FrameReady in the place of ENABLED <<FrameCallback>>_vars
\* (the step always takes a callback off its list or counts a tick).
FrameReady == Pending # <<>> /\ (gameActive => score < horizon)
FrameFair == []<>(~FrameReady) \/ []<><<FrameCallback>>_vars
SpecLive == Spec /\ FrameFair

-----------------------------------------------------------------------------
(* Long sessions.  SpecLate starts from the states a session reaches when the
   modal is opened on a 1000 x 800 viewport, play is clicked, and the pointer
   never moves: the state after LateStarts ticks, computed by running the
   handlers themselves.  Every asteroid of that run is spawned with the same
   draws (ReplayDraw), in a column the resting player is clear of. *)

LateTicks == 1
LateStarts == {499, 500, 999, 1000, 1999, 2000}
ReplayDraw == [size |-> 0, x |-> 124, speed |-> 0]

Constructed ==
    [gameActive |-> FALSE, score |-> 0, frameCount |-> 0,
     width |-> Px(800), height |-> Px(600),
     player |-> [x |-> Px(800) \div 2, y |-> Px(600) - Px(100), trail |-> <<>>],
     asteroids |-> <<>>, mouseX |-> Px(800) \div 2, mouseY |-> Px(600) - Px(100),
     scoreEl |-> 0, finalScoreEl |-> 0,
     modalHidden |-> FALSE, startHidden |-> FALSE, overHidden |-> TRUE,
     inner |-> <<1000, 800>>, rafQueue |-> <<>>, rafBatch |-> <<>>,
     openTimers |-> 0, closeTimers |-> 0,
     spawnRate |-> 45, elements |-> AllElements, threw |-> FALSE,
     finalWrites |-> 0, steady |-> FALSE, horizon |-> MaxTicks]

\* n display frames with one queued callback each
RECURSIVE Frames(_, _)
Frames(s, n) ==
    IF n = 0 THEN s
    ELSE IF n = 1 THEN gameLoop(Dequeued(s), ReplayDraw)
    ELSE LET half == Frames(s, n \div 2)
         IN  IF half.score >= 0 THEN Frames(half, n - n \div 2) ELSE half

Replayed(n) == Frames(startGame(resizeGame(Constructed), ReplayDraw), n - 1)

LateInit ==
    \E n \in LateStarts :
        /\ Is([Replayed(n) EXCEPT !.horizon = n + LateTicks])
        /\ ev = "tick"

SpecLate == LateInit /\ [][Next]_vars

-----------------------------------------------------------------------------
(* Held sessions.  SpecHold starts from the states a session reaches on the
   800 x 600 surface while the pointer stays where startGame put it, at
   (400, 500): the state after HoldStarts ticks, for every draw the spawner
   makes for the asteroids of that run. *)

HoldStarts == {45, 49}

RECURSIVE FramesDrawing(_, _, _)
FramesDrawing(s, n, rnd) ==
    IF n = 0 THEN s
    ELSE IF n = 1 THEN gameLoop(Dequeued(s), rnd)
    ELSE LET half == FramesDrawing(s, n \div 2, rnd)
         IN  IF half.score >= 0 THEN FramesDrawing(half, n - n \div 2, rnd) ELSE half

HeldFor(n, rnd) == FramesDrawing(startGame(resizeGame(Constructed), rnd), n - 1, rnd)

HoldInit ==
    \E n \in HoldStarts, rnd \in RndDraws :
        /\ Is([HeldFor(n, rnd) EXCEPT !.horizon = n + LateTicks])
        /\ ev = "tick"

SpecHold == HoldInit /\ [][Next]_vars

-----------------------------------------------------------------------------
(* Held sessions in which a fast asteroid overtakes a slow one.  SpecOvertake
   starts from a held session on the 800 x 600 surface whose first asteroid
   was drawn slow and whose later ones were drawn fast, all in the player's
   column: the asteroid of frameCount 45 passes the one of frameCount 0 and
   reaches the player first, at tick 139. *)

SlowDraw == [size |-> 0, x |-> Unit \div 2, speed |-> 0]
FastDraw == [size |-> 0, x |-> Unit \div 2, speed |-> Unit - 1]
OvertakeStarts == {137, 138}

Overtaken(n) ==
    FramesDrawing(startGame(resizeGame(Constructed), SlowDraw), n - 1, FastDraw)

OvertakeInit ==
    \E n \in OvertakeStarts :
        /\ Is([Overtaken(n) EXCEPT !.horizon = n + LateTicks])
        /\ ev = "tick"

SpecOvertake == OvertakeInit /\ [][Next]_vars

-----------------------------------------------------------------------------
(* update on an injected state (spec section 8: "force-inject one asteroid at
   (400, 500) radius 20 while player sits at (400, 500)").  SpecInject starts
   from a session just started on the 800 x 600 surface whose asteroid set
   has been replaced by one asteroid of radius 20 centred on the player, with
   any speed the spawner draws and any input target. *)

InjectTargets == Targets \cup {<<Px(400), Px(500)>>}

Injection(rnd, t) ==
    LET s == Replayed(1)
        a == spawnAsteroid([s EXCEPT !.asteroids = <<>>], rnd).asteroids[1]
    IN  [s EXCEPT !.asteroids = <<[a EXCEPT !.x = s.player.x, !.y = s.player.y,
                                              !.size = Px(20)]>>,
                  !.mouseX = t[1], !.mouseY = t[2]]

InjectInit ==
    \E rnd \in RndDraws, t \in InjectTargets :
        /\ Is(Injection(rnd, t))
        /\ ev = "event"
        /\ horizon = MaxTicks

SpecInject == InjectInit /\ [][Next]_vars

-----------------------------------------------------------------------------
(* Pages that lack an element.  SpecBoot starts from the state the IIFE
   leaves on a 1000 x 800 viewport when getElementById has found every
   element, or every element but one of those the core uses. *)

Required == {"canvas", "modal", "scoreEl", "finalScoreEl", "startScreen",
             "gameOverScreen", "playBtn", "restartBtn"}
MissingSets == {{}} \cup {{e} : e \in Required}

BootInit ==
    \E m \in MissingSets :
        /\ Is([Constructed EXCEPT !.elements = AllElements \ m, !.modalHidden = TRUE])
        /\ ev = "event"

SpecBoot == BootInit /\ [][Next]_vars

-----------------------------------------------------------------------------
(* Session states *)

Running == gameActive
Ended == ~gameActive /\ finalWrites > 0      \* stopped by a collision
Sim == <<score, frameCount, player, asteroids>>

-----------------------------------------------------------------------------
(* C1: whenever the session is not Running (Ended after a collision, Idle
   after a close), no frame callback scheduled by gameLoop is pending. *)
C1_NoStrayCallback == ~Running => Pending = <<>>

(* C2: a frame callback that was queued when the schedule was stopped never
   changes the simulation state when it fires, whatever start, restart or
   close signals arrived in between. *)
HeadStale ==
    LET batch == IF rafBatch = <<>> THEN rafQueue ELSE rafBatch
    IN  batch # <<>> /\ Head(batch).stale
C2_StaleCallbackInert ==
    [][(HeadStale /\ ev' \in {"tick", "stray"}) => UNCHANGED Sim]_vars

-----------------------------------------------------------------------------
(* C3 *)

SurfaceWidth == Min(Px(800), (inner[1] * 95 * Unit) \div 100)
SurfaceHeight == Min(Px(600), (inner[2] * 80 * Unit) \div 100)

\* C3 as claimed: the start / restart handler leaves score 0, frameCount 0,
\* no asteroid, no trail, and player and target at bottom-center.
C3_StartLeavesResetState ==
    Start =>
        /\ score = 0
        /\ frameCount = 0
        /\ asteroids = <<>>
        /\ player.trail = <<>>
        /\ player.x = width \div 2 /\ player.y = height - Px(100)
        /\ mouseX = width \div 2 /\ mouseY = height - Px(100)

(* C3 (amended): the start / restart handler recomputes the surface, resets,
   and runs the first tick before it returns: score is 1 (displayed 0), the
   asteroid set is exactly the one asteroid that tick spawned and advanced
   once, the trail is the one particle that tick pushed and aged once, the
   target is at bottom-center (width/2, height-100), the player is at
   bottom-center after that tick's boundary checks, and frameCount is 1 if
   the session is Running, 0 if that first tick collided. *)
C3_StartRunsFirstTick ==
    Start =>
        /\ width = SurfaceWidth /\ height = SurfaceHeight
        /\ score = 1 /\ scoreEl = 0
        /\ frameCount = (IF gameActive THEN 1 ELSE 0)
        /\ Len(asteroids) = 1
        /\ asteroids[1].rotSteps = 1
        /\ asteroids[1].y = asteroids[1].speed - asteroids[1].size
        /\ Len(player.trail) = 1
        /\ player.trail[1].alpha = AlphaOne - 1
        /\ mouseX = width \div 2 /\ mouseY = height - Px(100)
        /\ player.x = (IF width >= Px(40) THEN width \div 2 ELSE width - Px(20))
        /\ player.y = (IF height >= Px(120) THEN height - Px(100)
                       ELSE IF height >= Px(40) THEN Px(20)
                       ELSE height - Px(20))

\* a restart has just been handled while a callback of the session before it
\* was still queued
C3_Witness ==
    /\ Start /\ gameActive /\ score = 1 /\ frameCount = 1
    /\ Len(rafQueue) = 2 /\ rafQueue[1].stale
    /\ Len(asteroids) = 1

-----------------------------------------------------------------------------
(* C4 *)

\* C4 as claimed: after every tick the player lies in
\* [radius, width - radius] x [radius, height - radius].
C4_PlayerInRectAfterTick ==
    TickOrStart =>
        /\ Px(20) <= player.x /\ player.x <= width - Px(20)
        /\ Px(20) <= player.y /\ player.y <= height - Px(20)

(* C4 (amended): after every tick, on each axis whose extent is at least
   2 * radius = 40 the player coordinate lies in [radius, extent - radius];
   on an axis shorter than 40 (resizeGame has no lower limit) the interval is
   empty and the coordinate is extent - radius, below radius. *)
C4_PlayerClampedAfterTick ==
    TickOrStart =>
        /\ width >= Px(40) => Px(20) <= player.x /\ player.x <= width - Px(20)
        /\ width < Px(40) => player.x = width - Px(20)
        /\ height >= Px(40) => Px(20) <= player.y /\ player.y <= height - Px(20)
        /\ height < Px(40) => player.y = height - Px(20)

\* a tick has pulled the player toward a target below the surface and the
\* boundary check stopped it at height - radius
C4_Witness ==
    /\ Tick /\ gameActive
    /\ height >= Px(40) /\ mouseY > height
    /\ player.y = height - Px(20)

-----------------------------------------------------------------------------
(* C5: score goes up by exactly 1 in every tick executed while Running, the
   colliding tick included, starts a session at 1 (reset, then the first
   tick) and is changed by no other step: not by a callback firing while the
   session is Ended or Idle, nor by input, resize, open or close. *)
C5_ScorePerTick ==
    [][/\ Tick' => score' = score + 1
       /\ Start' => score' = 1
       /\ ~TickOrStart' => score' = score]_vars

\* a tick collided (the score it counted is kept) and the callback left
\* queued behind it has fired since
C5_Witness == Ended /\ score = 2 /\ Pending = <<>>

-----------------------------------------------------------------------------
(* C6: the score display shows floor(score / 10) after every tick and after
   a start / restart; a session that a collision has ended has written
   floor(score / 10) of the colliding tick's score to the final-score
   display, once; a Running session has not written it. *)
C6_ScoreShown ==
    /\ TickOrStart => scoreEl = score \div 10
    /\ Ended => finalScoreEl = score \div 10 /\ finalWrites = 1
    /\ Running => finalWrites = 0

\* a long session has collided at score 500 and shows 50 as the final score
C6_Witness == Ended /\ Tick /\ score = 500 /\ finalScoreEl = 50 /\ scoreEl = 50

-----------------------------------------------------------------------------
(* C7: a tick ends the session exactly when, after its player move and its
   asteroid advance / removal, an asteroid left in the set is closer to the
   player than playerRadius + asteroidRadius - 5; it then leaves frameCount
   alone, and otherwise the session stays Running and frameCount goes up by
   one. *)
Touching(p, a) ==
    LET r == Px(20) + a.size - Px(5)
        dx == p.x - a.x
        dy == p.y - a.y
    IN  /\ 0 - r < dx /\ dx < r
        /\ 0 - r < dy /\ dy < r
        /\ (dx * dx) + (dy * dy) < r * r
AnyTouching == \E i \in DOMAIN asteroids : Touching(player, asteroids[i])

C7_CollisionEndsTick ==
    [][TickOrStart' =>
          LET fc == IF Start' THEN 0 ELSE frameCount
          IN  IF AnyTouching'
              THEN ~gameActive' /\ frameCount' = fc
              ELSE gameActive' /\ frameCount' = fc + 1]_vars

\* a frame's tick has found an asteroid within reach and ended the session
C7_Witness == Tick /\ Ended /\ AnyTouching /\ score = 2 /\ frameCount = 1

-----------------------------------------------------------------------------
(* C8 *)

Injected(a) == a.size = Px(20) /\ a.x = player.x /\ a.y = player.y
SomeInjected == gameActive /\ \E i \in DOMAIN asteroids : Injected(asteroids[i])

\* C8 as claimed: a tick that starts with an asteroid of radius 20 centred on
\* the player ends the session, for every input target and asteroid speed.
C8_CentredAsteroidEndsNextTick ==
    [][(SomeInjected /\ Tick') => ~gameActive']_vars

(* C8 (amended): a tick that starts with an asteroid of radius 20 centred on
   the player ends the session (counting its own point of score) whenever
   the input target is at the player's position, the player lies in the
   playable rectangle and the asteroid's speed is below 35 px per tick, so
   that the tick's own player move leaves the asteroid within reach; and
   once a collision has ended the session the score stays as it is until
   the next start / restart. *)
PlayerHeld ==
    /\ mouseX = player.x /\ mouseY = player.y
    /\ Px(20) <= player.x /\ player.x <= width - Px(20)
    /\ Px(20) <= player.y /\ player.y <= height - Px(20)
SomeInjectedSlow ==
    gameActive /\ \E i \in DOMAIN asteroids :
        Injected(asteroids[i]) /\ asteroids[i].speed < Px(35)

C8_CentredAsteroidEndsHeldTick ==
    [][/\ (SomeInjectedSlow /\ PlayerHeld /\ Tick') =>
             ~gameActive' /\ finalWrites' = 1 /\ score' = score + 1
       /\ (Ended /\ ~Start') => score' = score]_vars

\* the tick after the injection has ended the session: the asteroid is one
\* step of its speed below the player, who has not moved
C8_Witness ==
    /\ Tick /\ Ended /\ score = 2 /\ Len(asteroids) = 1
    /\ asteroids[1].size = Px(20) /\ asteroids[1].x = player.x
    /\ asteroids[1].y = player.y + asteroids[1].speed
    /\ player.x = Px(400) /\ player.y = Px(500)

-----------------------------------------------------------------------------
(* C9: every tick computes its spawn interval from the score it has just
   incremented: 45 up to 500, 35 up to 1000, 25 up to 2000, 15 above; it
   spawns exactly one asteroid when the frameCount it starts with is a
   multiple of that interval, and none otherwise. *)
Interval(sc) ==
    IF sc <= 500 THEN 45
    ELSE IF sc <= 1000 THEN 35
    ELSE IF sc <= 2000 THEN 25
    ELSE 15

\* asteroids spawned by the tick that has just run: advanced once
Spawned == {i \in DOMAIN asteroids : asteroids[i].rotSteps = 1}

C9_SpawnCadence ==
    [][TickOrStart' =>
          LET fc == IF Start' THEN 0 ELSE frameCount
          IN  /\ spawnRate' = Interval(score')
              /\ Cardinality(Spawned') = (IF fc % Interval(score') = 0 THEN 1 ELSE 0)]_vars

\* the tick that took the score from 1000 to 1001 ran at frameCount 1000 with
\* interval 25 and spawned
C9_Witness ==
    /\ Tick /\ score = 1001 /\ spawnRate = 25
    /\ Spawned = {Len(asteroids)}

-----------------------------------------------------------------------------
(* C10 *)

\* C10 as claimed: every spawned asteroid starts at y = -size (it has been
\* advanced by its speed once when its tick returns) with 0 <= x <= width - size.
C10_SpawnInSurface ==
    TickOrStart =>
        \A i \in Spawned :
            /\ asteroids[i].y - asteroids[i].speed = 0 - asteroids[i].size
            /\ 0 <= asteroids[i].x
            /\ asteroids[i].x <= width - asteroids[i].size

(* C10 (amended): every asteroid produced by spawnAsteroid has y = -size and
   size in [10, 35); 0 <= x <= width - size whenever width >= size, and
   width - size <= x <= 0 on a surface narrower than the asteroid. *)
C10_SpawnAboveSurface ==
    TickOrStart =>
        \A i \in Spawned :
            LET a == asteroids[i]
            IN  /\ a.y - a.speed = 0 - a.size
                /\ Px(10) <= a.size /\ a.size < Px(35)
                /\ width >= a.size => 0 <= a.x /\ a.x <= width - a.size
                /\ width < a.size => width - a.size <= a.x /\ a.x <= 0

\* an asteroid has just been spawned inside a surface wider than it
C10_Witness ==
    /\ Start /\ Spawned = {1}
    /\ width >= asteroids[1].size /\ asteroids[1].x > 0

-----------------------------------------------------------------------------
(* C11: a trail particle is created with alpha 1 (20 steps of 0.05), has lost
   one step for every tick it has gone through, the tick that created it
   included, and is removed by the 20th of those ticks, the one that brings
   its alpha to 0; every other particle survives the tick, one step fainter
   and 2 px lower; a tick creates one particle when the frameCount it starts
   with is a multiple of 3; no particle with alpha <= 0 is in the trail when
   a tick returns. *)
Fading(p) == p.ticks < 19
AfterTick(p) == [p EXCEPT !.alpha = @ - 1, !.ticks = @ + 1, !.y = @ + Px(2)]

C11_TrailFades ==
    [][TickOrStart' =>
          LET old == IF Start' THEN <<>> ELSE player.trail
              fc == IF Start' THEN 0 ELSE frameCount
              new == player.trail'
              kept == SelectSeq(old, Fading)
          IN  /\ \A j \in DOMAIN new :
                    /\ new[j].alpha = 20 - new[j].ticks
                    /\ new[j].alpha > 0
                    /\ new[j].ticks >= 1
              /\ Len(new) = Len(kept) + (IF fc % 3 = 0 THEN 1 ELSE 0)
              /\ \A i \in DOMAIN kept : new[i] = AfterTick(kept[i])
              /\ fc % 3 = 0 => new[Len(new)].ticks = 1]_vars

\* the tick at frameCount 499, run after the pointer moved, has removed the
\* particle created at frameCount 480 on its 20th tick: the oldest left has
\* gone through 17
C11_Witness ==
    /\ Tick /\ frameCount = 500 /\ mouseX = Px(1000)
    /\ Len(player.trail) = 6
    /\ player.trail[1].ticks = 17 /\ player.trail[1].alpha = 3

-----------------------------------------------------------------------------
(* C12: when one of the elements the core needs is absent at initialization
   the core has declined to activate: no listener is registered, no frame
   callback is ever pending, the session never runs and no handler ends in a
   null-reference fault. *)
C12_DeclinesToActivate ==
    (Required \ elements # {}) =>
        /\ Listeners = {}
        /\ Pending = <<>>
        /\ ~gameActive
        /\ ~threw

-----------------------------------------------------------------------------
(* C13: a session started on the 800 x 600 surface whose pointer has stayed
   where the start put it, at (400, 500), is Running after each of its
   first 50 ticks, with the score equal to the number of ticks and the
   player at (400, 500), whatever the spawner drew for the asteroids of
   those ticks. *)
C13_HeldSessionRuns ==
    (steady /\ width = Px(800) /\ height = Px(600) /\ TickOrStart /\ score <= 50) =>
        /\ gameActive
        /\ score = frameCount
        /\ mouseX = Px(400) /\ mouseY = Px(500)
        /\ player.x = Px(400) /\ player.y = Px(500)

\* the 50th tick of a held session has run: the asteroids of frameCount 0
\* and 45 are both above the player
C13_Witness ==
    /\ steady /\ Tick /\ gameActive /\ score = 50 /\ frameCount = 50
    /\ player.x = Px(400) /\ player.y = Px(500)
    /\ Len(asteroids) = 2
    /\ asteroids[1].rotSteps = 50 /\ asteroids[1].speed > Px(4)

-----------------------------------------------------------------------------
(* C14 *)

AdvancedOnce(a) == [a EXCEPT !.y = @ + a.speed, !.rotSteps = @ + 1]
WasAdvanced(a, before) ==
    a.rotSteps = 1 \/ \E i \in DOMAIN before : a = AdvancedOnce(before[i])

\* C14 as claimed: every tick, the one that ends the session included,
\* advances every asteroid of the set (or removes it as off screen).
C14_EveryAsteroidAdvanced ==
    [][Tick' =>
          \A i \in DOMAIN asteroids :
              \/ \E j \in DOMAIN asteroids' : asteroids'[j] = AdvancedOnce(asteroids[i])
              \/ asteroids[i].y + asteroids[i].speed > height + asteroids[i].size]_vars

(* C14 (amended): a tick goes through the asteroids from the newest to the
   oldest; each is advanced by its speed (its rotation by its rotation
   speed), removed if off screen and otherwise tested at once.  A tick
   without collision has advanced or removed every asteroid.  A tick that
   ends the session stops at the newest asteroid within reach: that one and
   every newer one have been advanced, every older one is left as it was. *)
C14_NewestFirstUntilCollision ==
    [][Tick' =>
          LET Q == asteroids'
          IN  IF gameActive'
              THEN /\ \A j \in DOMAIN Q : WasAdvanced(Q[j], asteroids)
                   /\ \A i \in DOMAIN asteroids :
                         \/ \E j \in DOMAIN Q : Q[j] = AdvancedOnce(asteroids[i])
                         \/ asteroids[i].y + asteroids[i].speed > height + asteroids[i].size
              ELSE \E k \in DOMAIN Q :
                      /\ Touching(player', Q[k])
                      /\ \A j \in DOMAIN Q :
                            /\ j >= k => WasAdvanced(Q[j], asteroids)
                            /\ j > k => ~Touching(player', Q[j])
                            /\ j < k => Q[j] = asteroids[j]]_vars

\* tick 139 of the session has ended it on the asteroid of frameCount 45,
\* with the older, slower asteroid of frameCount 0 still above the player
C14_Witness ==
    /\ Tick /\ Ended /\ score = 139 /\ steady
    /\ Len(asteroids) >= 2
    /\ Touching(player, asteroids[2])
    /\ asteroids[1].rotSteps = 138 /\ asteroids[2].rotSteps = 94

-----------------------------------------------------------------------------
(* C15 *)

InRect ==
    /\ Px(20) <= player.x /\ player.x <= width - Px(20)
    /\ Px(20) <= player.y /\ player.y <= height - Px(20)

\* C15 as claimed: in every reachable state the player lies in
\* [radius, width - radius] x [radius, height - radius].
C15_PlayerAlwaysInRect == InRect

(* C15 (amended): the player lies in the rectangle after every tick and
   start on a surface of at least 40 x 40; a resize handled while no game is
   active puts the player at (width / 2, height - 100), which is in the
   rectangle exactly when width >= 40 and height >= 120; a resize handled
   while Running leaves the player where it was, possibly outside the new
   rectangle until the next tick; every other handler leaves the player and
   the surface as they were. *)
ResizeRan == inner' # inner \/ openTimers' < openTimers

C15_PlayerInRectUnlessResized ==
    [][/\ (TickOrStart' /\ width' >= Px(40) /\ height' >= Px(40)) => InRect'
       /\ (ResizeRan /\ ~gameActive) =>
             /\ player'.x = width' \div 2 /\ player'.y = height' - Px(100)
             /\ InRect' <=> (width' >= Px(40) /\ height' >= Px(120))
       /\ (ResizeRan /\ gameActive) => player' = player
       /\ (~ResizeRan /\ ~TickOrStart') =>
             player' = player /\ width' = width /\ height' = height]_vars

\* the window has shrunk during a Running session: the surface is 380 x 120
\* and the player is still where the last tick left it, outside
C15_Witness ==
    /\ gameActive /\ ev = "event"
    /\ width = Px(380) /\ height = Px(120)
    /\ player.x = Px(400) /\ player.y = Px(500)

-----------------------------------------------------------------------------
(* C16: while the session is Running a frame callback is pending; and, the
   browser delivering its frames, a Running session whose score is n is
   eventually either no longer Running (a collision or a close intervened)
   or at score n + 1 (another tick has run).  The exploration cap on the
   score is the only limit: sessions are followed up to their horizon. *)
C16_LoopNeverStalls ==
    /\ [](gameActive => Pending # <<>>)
    /\ (gameActive /\ score = 1) ~> (~gameActive \/ score = 2)

\* a Running session has been followed by another tick and is still Running,
\* with its next callback queued
C16_Witness ==
    /\ gameActive /\ Tick /\ score = 2 /\ frameCount = 2
    /\ Len(rafQueue) = 1 /\ rafBatch = <<>>

-----------------------------------------------------------------------------
(* C17: at most one frame callback is pending at any time, whatever the
   interleaving of start, restart, close and collision with the frames. *)
C17_OneCallbackPending == Len(Pending) <= 1

-----------------------------------------------------------------------------
(* C18: score - frameCount is 0 or 1 in every state between handlers: it is
   1 exactly when the session has been ended by a collision (the colliding
   tick counted its point of score and not its frame) and not restarted
   since, and 0 otherwise: at construction, after a start, after every tick
   without collision and after a close of a Running session. *)
C18_ScoreLeadsFrameCount ==
    /\ score - frameCount \in {0, 1}
    /\ score - frameCount = 1 <=> Ended
    /\ (TickOrStart /\ gameActive) => score = frameCount

\* a session ended by a collision has then been closed: the difference stays 1
C18_Witness ==
    /\ ev = "event" /\ closeTimers = 1 /\ ~gameActive /\ finalWrites = 1
    /\ score = 2 /\ frameCount = 1

-----------------------------------------------------------------------------
(* C19: the trail never holds more than 7 particles, and it is in creation
   order: from the first element to the last the particles are younger
   (fewer ticks gone through) and their alpha is strictly higher. *)
C19_TrailOrdered ==
    /\ Len(player.trail) <= 7
    /\ \A i, j \in DOMAIN player.trail :
          i < j => /\ player.trail[i].alpha < player.trail[j].alpha
                   /\ player.trail[i].ticks > player.trail[j].ticks

\* the tick at frameCount 999, run after the pointer moved, has created a
\* particle: the trail holds 7, the oldest one tick from removal
C19_Witness ==
    /\ Tick /\ frameCount = 1000 /\ mouseX # Px(400)
    /\ Len(player.trail) = 7
    /\ player.trail[1].alpha = 1 /\ player.trail[7].alpha = 19

-----------------------------------------------------------------------------
(* C20: whenever the session is Running the start screen and the game-over
   screen are hidden and the modal is not, whatever the interleaving of the
   close handler's delayed reset with start / restart signals. *)
C20_RunningShowsGame ==
    gameActive => (startHidden /\ overHidden /\ ~modalHidden)

=============================================================================
